---- MODULE Spec2Model ----
(***************************************************************************)
(* Model of server.py: DBController (initialize, save, fetch_recent) over  *)
(* one SQLite file, and RequestHandler (do_POST, do_GET) on top of it.     *)
(* Several clients use the same database file at once; each call is a      *)
(* process that moves through the attempts of the retry loop.              *)
(***************************************************************************)
EXTENDS Integers, Sequences, FiniteSets, TLC

\* ---- bounds of the model ------------------------------------------------
NumProcs == 2
MaxRetries == 2
MaxRows == 2
MaxLimit == 2

Procs == 1..NumProcs

\* TCPServer handles one request at a time: one process is the request handler,
\* the others are programs that use a DBController on the same file
Handler == 1
Clients == Procs \ {Handler}

\* ---- text: a string is the sequence of its characters -------------------
DigitChars == <<"0","1","2","3","4","5","6","7","8","9">>

UpperChars == <<"A","B","C","D","E","F","G","H","I","J","K","L","M",
                "N","O","P","Q","R","S","T","U","V","W","X","Y","Z">>

LowerChars == <<"a","b","c","d","e","f","g","h","i","j","k","l","m",
                "n","o","p","q","r","s","t","u","v","w","x","y","z">>

\* str.lower() on one character
LowerChar(c) ==
    IF \E i \in 1..Len(UpperChars) : UpperChars[i] = c
    THEN LowerChars[CHOOSE i \in 1..Len(UpperChars) : UpperChars[i] = c]
    ELSE c

\* str.lower()
Lower(s) == [i \in 1..Len(s) |-> LowerChar(s[i])]

\* needle in s  (Python substring test)
Contains(s, needle) ==
    \E k \in 0..(Len(s) - Len(needle)) :
        \A i \in 1..Len(needle) : s[k + i] = needle[i]

\* str(n) for a natural number n
RECURSIVE Digits(_)
Digits(n) == IF n < 10 THEN <<DigitChars[n + 1]>>
             ELSE Digits(n \div 10) \o <<DigitChars[(n % 10) + 1]>>

\* byte value of a character of a timestamp (digits only in this model)
Code(c) == 47 + (CHOOSE i \in 1..Len(DigitChars) : DigitChars[i] = c)

Min(a, b) == IF a < b THEN a ELSE b

\* a < b under SQLite's BINARY collation (bytewise, shorter prefix first)
TextLess(a, b) ==
    \E k \in 1..(Min(Len(a), Len(b)) + 1) :
        /\ \A i \in 1..(k - 1) : a[i] = b[i]
        /\ \/ k > Len(a) /\ k <= Len(b)
           \/ k <= Len(a) /\ k <= Len(b) /\ Code(a[k]) < Code(b[k])

\* ---- messages -------------------------------------------------------------
MsgLocked == <<"d","a","t","a","b","a","s","e"," ","i","s"," ","l","o","c","k","e","d">>
MsgNoTable == <<"n","o"," ","s","u","c","h"," ","t","a","b","l","e",":"," ","s","e","n","s","o","r","_","d","a","t","a">>
MsgDiskIO == <<"d","i","s","k"," ","I","/","O"," ","e","r","r","o","r">>
MsgNotNull == <<"N","O","T"," ","N","U","L","L"," ","c","o","n","s","t","r","a","i","n","t"," ","f","a","i","l","e","d">>
MsgNoGet == <<"o","b","j","e","c","t"," ","h","a","s"," ","n","o"," ","a","t","t","r","i","b","u","t","e"," ","'","g","e","t","'">>
MsgJson == <<"E","x","p","e","c","t","i","n","g"," ","v","a","l","u","e">>
MsgBind == <<"t","y","p","e"," ","i","s"," ","n","o","t"," ","s","u","p","p","o","r","t","e","d">>
MsgAfter == <<"d","a","t","a","b","a","s","e"," ","i","s"," ","l","o","c","k","e","d"," ","a","f","t","e","r"," ">>
MsgRetries == <<" ","r","e","t","r","i","e","s">>
MsgAfterRetries == <<"d","a","t","a","b","a","s","e"," ","i","s"," ","l","o","c","k","e","d"," ","a","f","t","e","r"," ","r","e","t","r","i","e","s">>
MsgNoSensor == <<"N","o"," ","s","e","n","s","o","r"," ","d","a","t","a"," ","p","r","o","v","i","d","e","d">>
Needle == <<"l","o","c","k","e","d">>

\* ---- exceptions -----------------------------------------------------------
Exc(cls, msg) == [cls |-> cls, msg |-> msg]

NoErr == Exc("none", <<>>)
ErrLocked == Exc("OperationalError", MsgLocked)
ErrNoTable == Exc("OperationalError", MsgNoTable)
ErrDiskIO == Exc("OperationalError", MsgDiskIO)
ErrNotNull == Exc("IntegrityError", MsgNotNull)
ErrBind == Exc("ProgrammingError", MsgBind)
ErrNoGet == Exc("AttributeError", MsgNoGet)
ErrJson == Exc("JSONDecodeError", MsgJson)
ErrValidation == Exc("OperationalError", MsgNoSensor)

\* the error save raises after the loop
ErrSaveTerminal(n) == Exc("OperationalError", MsgAfter \o Digits(n) \o MsgRetries)

\* the error fetch_recent raises after the loop
ErrFetchTerminal == Exc("OperationalError", MsgAfterRetries)

\* faults of the storage that are not lock contention
Faults == {ErrDiskIO}

\* ---- JSON values (json.loads results) ---------------------------------------
JNull == [t |-> "null", v |-> <<>>]
JStr(s) == [t |-> "str", v |-> s]
JNum(n) == [t |-> "num", v |-> n]
JBool(b) == [t |-> "bool", v |-> b]
JObj(d) == [t |-> "obj", v |-> d]
JArr == [t |-> "arr", v |-> <<>>]

\* a request body that is not JSON text
NotJson == [t |-> "invalid", v |-> <<>>]

\* x is None
IsNone(x) == x.t = "null"

\* x has a .get method (x is a dict)
HasGet(x) == x.t = "obj"

\* d.get(k) for a dict d: None when the key is absent
Get(d, k) == IF k \in DOMAIN d.v THEN d.v[k] ELSE JNull

\* Python truth value of x
Truthy(x) ==
    CASE x.t = "null" -> FALSE
      [] x.t = "bool" -> x.v
      [] x.t = "num" -> x.v # 0
      [] x.t = "str" -> Len(x.v) > 0
      [] x.t = "obj" -> DOMAIN x.v # {}
      [] OTHER -> Len(x.v) > 0

\* ---- inputs ---------------------------------------------------------------
NodeN1 == <<"n","1">>
NodeN2 == <<"n","2">>
Ts10 == <<"1","0">>
Ts2 == <<"2">>

\* numbers are kept in tenths: 255 stands for 25.5
SensFull == JObj([temperature_celsius |-> JNum(255), humidity_percent |-> JNum(600),
                  luminosity_lux |-> JNull, presence_detected |-> JBool(FALSE),
                  power_on |-> JBool(TRUE)])
SensPartial == JObj([humidity_percent |-> JNum(551), presence_detected |-> JBool(TRUE)])

Record(node, ts, sensors) == JObj([node_id |-> JStr(node), timestamp |-> JStr(ts), sensors |-> sensors])

ValidPayloads == {Record(NodeN1, Ts10, SensFull), Record(NodeN2, Ts10, SensPartial),
                  Record(NodeN1, Ts2, SensPartial)}

PayNoSensors == JObj([node_id |-> JStr(NodeN2)])
PayNullSensors == JObj([node_id |-> JStr(NodeN2), timestamp |-> JStr(Ts2), sensors |-> JNull])
PayNoNode == JObj([timestamp |-> JStr(Ts2), sensors |-> SensPartial])
PayNoTimestamp == JObj([node_id |-> JStr(NodeN2), sensors |-> SensPartial])
PayBadSensors == JObj([node_id |-> JStr(NodeN2), timestamp |-> JStr(Ts2), sensors |-> JStr(NodeN1)])

\* what a caller may hand to save
Payloads == ValidPayloads \cup {PayNoSensors, PayNullSensors, PayNoNode, PayNoTimestamp, PayBadSensors}

\* what the other programs hand to save
ClientPayloads == ValidPayloads \cup {PayNoSensors}

\* what an HTTP client may send as the body of a POST
Bodies == Payloads \cup {JArr, NotJson}

PostPaths == {"/data", "/other"}
GetPaths == {"/data", "/", "/other"}

\* default of fetch_recent's limit
DefaultLimit == 100

Limits == (-1)..MaxLimit

\* ---- save: the parts before the loop ------------------------------------
\* the tuple bound to the INSERT
Params(payload, sensors) ==
    [node_id |-> Get(payload, "node_id"),
     timestamp |-> Get(payload, "timestamp"),
     temperature_celsius |-> Get(sensors, "temperature_celsius"),
     humidity_percent |-> Get(sensors, "humidity_percent"),
     luminosity_lux |-> Get(sensors, "luminosity_lux"),
     presence_detected |-> IF Truthy(Get(sensors, "presence_detected")) THEN JNum(1) ELSE JNum(0),
     power_on |-> IF Truthy(Get(sensors, "power_on")) THEN JNum(1) ELSE JNum(0)]

\* ---- the sqlite3 module and the table -------------------------------------
\* a parameter sqlite3 can bind
Bindable(x) == x.t \in {"null", "str", "num", "bool"}

\* a column value is <<>> for NULL, <<v>> otherwise
\* value stored in a TEXT column
TextCol(x) ==
    CASE x.t = "null" -> <<>>
      [] x.t = "str" -> <<x.v>>
      [] x.t = "num" -> <<Digits(x.v)>>
      [] OTHER -> <<Digits(IF x.v THEN 1 ELSE 0)>>

\* value stored in a REAL or BOOLEAN column
NumCol(x) ==
    CASE x.t = "null" -> <<>>
      [] x.t = "num" -> <<x.v>>
      [] x.t = "bool" -> <<IF x.v THEN 1 ELSE 0>>
      [] OTHER -> <<x.v>>

ParamNames == {"node_id", "timestamp", "temperature_celsius", "humidity_percent",
               "luminosity_lux", "presence_detected", "power_on"}

\* an INSERT that gives every row the same id
NewRowSameId(tbl, params) ==
    [id |-> 1,
     node_id |-> TextCol(params.node_id),
     timestamp |-> TextCol(params.timestamp),
     temperature_celsius |-> NumCol(params.temperature_celsius),
     humidity_percent |-> NumCol(params.humidity_percent),
     luminosity_lux |-> NumCol(params.luminosity_lux),
     presence_detected |-> NumCol(params.presence_detected),
     power_on |-> NumCol(params.power_on)]

\* the row an INSERT of params adds to tbl
NewRow(tbl, params) ==
    [id |-> Len(tbl) + 1,
     node_id |-> TextCol(params.node_id),
     timestamp |-> TextCol(params.timestamp),
     temperature_celsius |-> NumCol(params.temperature_celsius),
     humidity_percent |-> NumCol(params.humidity_percent),
     luminosity_lux |-> NumCol(params.luminosity_lux),
     presence_detected |-> NumCol(params.presence_detected),
     power_on |-> NumCol(params.power_on)]

\* NOT NULL columns of sensor_data
NotNullOk(row) == row.node_id # <<>> /\ row.timestamp # <<>>

\* ---- the retry policy -----------------------------------------------------
\* a handler that gives up on the first locked error
NeverRetry(err) == FALSE

\* a handler that retries every OperationalError
RetryAnyOperational(err) == err.cls = "OperationalError"

\* except sqlite3.OperationalError as e: if 'locked' in str(e).lower()
IsContention(err) == err.cls = "OperationalError" /\ Contains(Lower(err.msg), Needle)

\* a wait that does not double
SaveBackoffFlat(attempt) == 50

\* time.sleep argument of save, in milliseconds
SaveBackoff(attempt) == 50 * (2 ^ (attempt - 1))

\* a read wait that does not double
FetchBackoffFlat(attempt) == 20

\* time.sleep argument of fetch_recent, in milliseconds
FetchBackoff(attempt) == 20 * (2 ^ (attempt - 1))

\* a loop that runs one time more than the ceiling
AttemptsOneMore(n) == 1..(n + 1)

\* range(1, self.retries + 1)
Attempts(n) == 1..n

\* ---- state ----------------------------------------------------------------
VARIABLES
    retries,      \* DBController.retries
    tableExists,  \* sensor_data has been created in the database file
    table,        \* committed rows of sensor_data, in rowid order
    writer,       \* processes inside a write transaction (at most one)
    extLock,      \* another program holds the database file exclusively
    pc,           \* where each process is in its call
    req,          \* the call each process is making
    attempt,      \* loop variable of the retry loop
    log,          \* per attempt of the current call: the error met and the sleep taken
    appended,     \* rows the current call has committed
    result        \* how the current call ended

vars == <<retries, tableExists, table, writer, extLock, pc, req, attempt, log, appended, result>>

db == <<tableExists, table, writer, extLock>>

NoReq == [kind |-> "none", path |-> "", payload |-> JNull, limit |-> 0]
NoResult == [outcome |-> "none", err |-> NoErr, http |-> 0, ids |-> <<>>, value |-> <<>>]

Init ==
    /\ retries \in 0..MaxRetries
    /\ tableExists = FALSE
    /\ table = <<>>
    /\ writer = {}
    /\ extLock = FALSE
    /\ pc = [p \in Procs |-> "idle"]
    /\ req = [p \in Procs |-> NoReq]
    /\ attempt = [p \in Procs |-> 0]
    /\ log = [p \in Procs |-> <<>>]
    /\ appended = [p \in Procs |-> 0]
    /\ result = [p \in Procs |-> NoResult]

\* ---- how a call ends ------------------------------------------------------
\* status do_POST / do_GET send when the controller call raises
HttpOnRaise(kind) == IF kind \in {"POST", "GET"} THEN 500 ELSE 0

\* status do_POST / do_GET send when the controller call returns
HttpOnReturn(kind) == IF kind = "POST" THEN 202 ELSE IF kind = "GET" THEN 200 ELSE 0

Raised(r, err) == [outcome |-> "raised", err |-> err, http |-> HttpOnRaise(r.kind), ids |-> <<>>, value |-> <<>>]

Returned(r, ids, value) == [outcome |-> "returned", err |-> NoErr, http |-> HttpOnReturn(r.kind), ids |-> ids, value |-> value]

LogEntry(err, ms) == [err |-> err, sleep |-> ms]

\* a call has ended (or none was made yet): the process may start the next one
Ready(p) == pc[p] \in {"idle", "done"}

\* ---- initialize -----------------------------------------------------------
\* a schema statement that drops and recreates the table
CreateTableAnew(exists, tbl) == <<>>

\* CREATE TABLE IF NOT EXISTS sensor_data: the rows of the table afterwards
CreateTableIfNotExists(exists, tbl) == IF exists THEN tbl ELSE <<>>

\* CREATE TABLE IF NOT EXISTS, the two PRAGMAs and the commit, in one connection
\* and with no retry
Initialize(p) ==
    /\ Ready(p)
    /\ req' = [req EXCEPT ![p] = [NoReq EXCEPT !.kind = "initialize"]]
    /\ pc' = [pc EXCEPT ![p] = "done"]
    /\ attempt' = [attempt EXCEPT ![p] = 0]
    /\ log' = [log EXCEPT ![p] = <<>>]
    /\ appended' = [appended EXCEPT ![p] = 0]
    /\ IF extLock
       THEN /\ result' = [result EXCEPT ![p] = Raised(req'[p], ErrLocked)]
            /\ UNCHANGED <<tableExists, table>>
       ELSE /\ result' = [result EXCEPT ![p] = Returned(req'[p], <<>>, <<>>)]
            /\ tableExists' = TRUE
            /\ table' = CreateTableIfNotExists(tableExists, table)
    /\ UNCHANGED <<retries, writer, extLock>>

\* ---- save -----------------------------------------------------------------
\* save up to the first pass through the loop header
SaveEnter(p, r) ==
    LET payload == r.payload
        sensors == Get(payload, "sensors")
    IN  /\ req' = [req EXCEPT ![p] = r]
        /\ log' = [log EXCEPT ![p] = <<>>]
        /\ appended' = [appended EXCEPT ![p] = 0]
        /\ IF ~HasGet(payload)
           THEN /\ pc' = [pc EXCEPT ![p] = "done"]
                /\ attempt' = [attempt EXCEPT ![p] = 0]
                /\ result' = [result EXCEPT ![p] = Raised(r, ErrNoGet)]
           ELSE IF IsNone(sensors)
           THEN \* the OperationalError is constructed, not raised; save returns
                /\ pc' = [pc EXCEPT ![p] = "done"]
                /\ attempt' = [attempt EXCEPT ![p] = 0]
                /\ result' = [result EXCEPT ![p] = Returned(r, <<>>, <<>>)]
           ELSE IF ~HasGet(sensors)
           THEN /\ pc' = [pc EXCEPT ![p] = "done"]
                /\ attempt' = [attempt EXCEPT ![p] = 0]
                /\ result' = [result EXCEPT ![p] = Raised(r, ErrNoGet)]
           ELSE IF 1 \notin Attempts(retries)
           THEN /\ pc' = [pc EXCEPT ![p] = "done"]
                /\ attempt' = [attempt EXCEPT ![p] = 0]
                /\ result' = [result EXCEPT ![p] = Raised(r, ErrSaveTerminal(retries))]
           ELSE /\ pc' = [pc EXCEPT ![p] = "save_try"]
                /\ attempt' = [attempt EXCEPT ![p] = 1]
                /\ result' = [result EXCEPT ![p] = NoResult]

\* calls in flight that may still add a row
Saving == {q \in Procs : pc[q] \in {"save_try", "save_commit"}}

\* a client calls DBController.save(payload)
CallSave(p, payload) ==
    /\ p \in Clients
    /\ Ready(p)
    /\ Len(table) + Cardinality(Saving) < MaxRows
    /\ SaveEnter(p, [kind |-> "save", path |-> "", payload |-> payload, limit |-> 0])
    /\ UNCHANGED <<retries, db>>

\* the except clause of save's loop, and the raise after the loop
SaveAttemptFailed(p, err) ==
    IF IsContention(err)
    THEN /\ log' = [log EXCEPT ![p] = Append(@, LogEntry(err, SaveBackoff(attempt[p])))]
         /\ IF attempt[p] + 1 \in Attempts(retries)
            THEN /\ attempt' = [attempt EXCEPT ![p] = @ + 1]
                 /\ UNCHANGED <<pc, result>>
            ELSE /\ pc' = [pc EXCEPT ![p] = "done"]
                 /\ result' = [result EXCEPT ![p] = Raised(req[p], ErrSaveTerminal(retries))]
                 /\ UNCHANGED attempt
    ELSE /\ log' = [log EXCEPT ![p] = Append(@, LogEntry(err, 0))]
         /\ pc' = [pc EXCEPT ![p] = "done"]
         /\ result' = [result EXCEPT ![p] = Raised(req[p], err)]
         /\ UNCHANGED attempt

\* the row the current call of p inserts
PendingRow(p) == NewRow(table, Params(req[p].payload, Get(req[p].payload, "sensors")))

\* what cur.execute(sql, params) raises in the present state, NoErr if nothing:
\* the statement is prepared (the schema is read), the parameters are bound,
\* the write lock is taken, the row is checked
ExecuteError(p) ==
    LET params == Params(req[p].payload, Get(req[p].payload, "sensors")) IN
    IF extLock THEN ErrLocked
    ELSE IF ~tableExists THEN ErrNoTable
    ELSE IF \E k \in ParamNames : ~Bindable(params[k]) THEN ErrBind
    ELSE IF writer # {} THEN ErrLocked
    ELSE IF ~NotNullOk(PendingRow(p)) THEN ErrNotNull
    ELSE NoErr

\* one pass through the loop body up to cur.execute: connect and execute;
\* faults are the errors the storage may raise besides those the state implies
SaveExecute(p, faults) ==
    /\ pc[p] = "save_try"
    /\ \E err \in {ExecuteError(p)} \cup faults :
        IF err = NoErr
        THEN /\ writer' = {p}
             /\ pc' = [pc EXCEPT ![p] = "save_commit"]
             /\ UNCHANGED <<attempt, log, result>>
        ELSE /\ SaveAttemptFailed(p, err)
             /\ UNCHANGED writer
    /\ UNCHANGED <<retries, tableExists, table, extLock, req, appended>>

SaveTry(p) == SaveExecute(p, Faults)

\* a save that returns without its row having been committed
SaveFinishLost(p, faults) ==
    /\ pc[p] = "save_commit"
    /\ writer' = {}
    /\ log' = [log EXCEPT ![p] = Append(@, LogEntry(NoErr, 0))]
    /\ pc' = [pc EXCEPT ![p] = "done"]
    /\ result' = [result EXCEPT ![p] = Returned(req[p], <<>>, <<>>)]
    /\ UNCHANGED <<retries, tableExists, table, extLock, req, attempt, appended>>

\* a commit that fails and leaves its transaction open
SaveFinishHolding(p, faults) ==
    /\ pc[p] = "save_commit"
    /\ SaveAttemptFailed(p, ErrDiskIO)
    /\ UNCHANGED <<retries, tableExists, table, writer, extLock, req, appended>>

\* conn.commit() and the return, or a commit that fails and is rolled back
SaveFinish(p, faults) ==
    /\ pc[p] = "save_commit"
    /\ writer' = {}
    /\ \E err \in {NoErr} \cup faults :
        IF err = NoErr
        THEN /\ table' = Append(table, PendingRow(p))
             /\ appended' = [appended EXCEPT ![p] = @ + 1]
             /\ log' = [log EXCEPT ![p] = Append(@, LogEntry(NoErr, 0))]
             /\ pc' = [pc EXCEPT ![p] = "done"]
             /\ result' = [result EXCEPT ![p] = Returned(req[p], <<>>, <<>>)]
             /\ UNCHANGED attempt
        ELSE /\ SaveAttemptFailed(p, err)
             /\ UNCHANGED <<table, appended>>
    /\ UNCHANGED <<retries, tableExists, extLock, req>>

SaveCommit(p) == SaveFinish(p, Faults)

\* a handler that takes every path for the data path
AnyPath(path) == TRUE

\* the one path do_POST serves
IsDataPath(path) == path = "/data"

\* do_POST
DoPost(p, path, body) ==
    /\ p = Handler
    /\ Ready(p)
    /\ Len(table) + Cardinality(Saving) < MaxRows
    /\ LET r == [kind |-> "POST", path |-> path, payload |-> body, limit |-> 0] IN
       IF ~IsDataPath(path)
       THEN /\ req' = [req EXCEPT ![p] = r]
            /\ log' = [log EXCEPT ![p] = <<>>]
            /\ appended' = [appended EXCEPT ![p] = 0]
            /\ attempt' = [attempt EXCEPT ![p] = 0]
            /\ pc' = [pc EXCEPT ![p] = "done"]
            /\ result' = [result EXCEPT ![p] = [NoResult EXCEPT !.outcome = "returned", !.http = 404]]
       ELSE IF body = NotJson
       THEN /\ req' = [req EXCEPT ![p] = r]
            /\ log' = [log EXCEPT ![p] = <<>>]
            /\ appended' = [appended EXCEPT ![p] = 0]
            /\ attempt' = [attempt EXCEPT ![p] = 0]
            /\ pc' = [pc EXCEPT ![p] = "done"]
            /\ result' = [result EXCEPT ![p] = Raised(r, ErrJson)]
       ELSE SaveEnter(p, r)
    /\ UNCHANGED <<retries, db>>

\* ---- fetch_recent ---------------------------------------------------------
\* all orders in which the numbers of S can be listed
RECURSIVE Perms(_)
Perms(S) == IF S = {} THEN {<<>>}
            ELSE UNION {{<<x>> \o s : s \in Perms(S \ {x})} : x \in S}

\* ORDER BY timestamp ASC
OrderedByTimestampAsc(tbl, order) ==
    \A i, j \in 1..Len(order) :
        i < j => ~TextLess(tbl[order[j]].timestamp[1], tbl[order[i]].timestamp[1])

\* ORDER BY timestamp DESC: order lists rowids of tbl, no row before one with a
\* greater timestamp; rows with equal timestamps come in any order
OrderedByTimestampDesc(tbl, order) ==
    \A i, j \in 1..Len(order) :
        i < j => ~TextLess(tbl[order[i]].timestamp[1], tbl[order[j]].timestamp[1])

\* a LIMIT that clamps a negative limit to no rows
LimitClamped(order, limit) ==
    IF limit < 0 THEN <<>>
    ELSE IF limit >= Len(order) THEN order ELSE SubSeq(order, 1, limit)

\* a LIMIT that stops one row early
LimitOneLess(order, limit) ==
    IF limit < 0 \/ limit > Len(order) THEN order ELSE SubSeq(order, 1, limit - 1)

\* LIMIT ?: the first limit entries; a negative limit is no limit
LimitRows(order, limit) ==
    IF limit < 0 \/ limit >= Len(order) THEN order ELSE SubSeq(order, 1, limit)

\* the result lists the SELECT may produce, as rowids
SelectRecent(tbl, limit) ==
    {LimitRows(order, limit) : order \in {o \in Perms(1..Len(tbl)) : OrderedByTimestampDesc(tbl, o)}}

\* bool(x) of a column value
\* a conversion that reads every non-NULL column as true
ColNotNull(c) == c # <<>>

\* bool(r[5]), bool(r[6]): NULL and 0 are false
ColBool(c) == c # <<>> /\ c[1] # 0

\* the dict fetch_recent builds from one row
OutEntry(row) ==
    [node_id |-> row.node_id,
     timestamp |-> row.timestamp,
     sensors |-> [temperature_celsius |-> row.temperature_celsius,
                  humidity_percent |-> row.humidity_percent,
                  luminosity_lux |-> row.luminosity_lux,
                  presence_detected |-> ColBool(row.presence_detected),
                  power_on |-> ColBool(row.power_on)]]

\* the list fetch_recent returns for the rows selected
Out(tbl, ids) == [i \in 1..Len(ids) |-> OutEntry(tbl[ids[i]])]

\* fetch_recent up to the first pass through the loop header
FetchEnter(p, r) ==
    /\ req' = [req EXCEPT ![p] = r]
    /\ log' = [log EXCEPT ![p] = <<>>]
    /\ appended' = [appended EXCEPT ![p] = 0]
    /\ IF 1 \notin Attempts(retries)
       THEN /\ pc' = [pc EXCEPT ![p] = "done"]
            /\ attempt' = [attempt EXCEPT ![p] = 0]
            /\ result' = [result EXCEPT ![p] = Raised(r, ErrFetchTerminal)]
       ELSE /\ pc' = [pc EXCEPT ![p] = "fetch_try"]
            /\ attempt' = [attempt EXCEPT ![p] = 1]
            /\ result' = [result EXCEPT ![p] = NoResult]

\* a client calls DBController.fetch_recent(limit)
CallFetch(p, limit) ==
    /\ p \in Clients
    /\ Ready(p)
    /\ FetchEnter(p, [kind |-> "fetch", path |-> "", payload |-> JNull, limit |-> limit])
    /\ UNCHANGED <<retries, db>>

\* do_GET
DoGet(p, path) ==
    /\ p = Handler
    /\ Ready(p)
    /\ LET r == [kind |-> "GET", path |-> path, payload |-> JNull, limit |-> DefaultLimit] IN
       IF path = "/data"
       THEN FetchEnter(p, r)
       ELSE \* a file is served by SimpleHTTPRequestHandler; the controller is not called
            /\ req' = [req EXCEPT ![p] = r]
            /\ log' = [log EXCEPT ![p] = <<>>]
            /\ appended' = [appended EXCEPT ![p] = 0]
            /\ attempt' = [attempt EXCEPT ![p] = 0]
            /\ pc' = [pc EXCEPT ![p] = "done"]
            /\ \E status \in {200, 404} :
                 result' = [result EXCEPT ![p] = [NoResult EXCEPT !.outcome = "static", !.http = status]]
    /\ UNCHANGED <<retries, db>>

\* a SELECT that also sees the row of a transaction not yet committed
VisibleDirty == table \o [i \in 1..Cardinality(writer) |-> NewRow(table, Params(req[CHOOSE q \in writer : TRUE].payload, Get(req[CHOOSE q \in writer : TRUE].payload, "sensors")))]

\* the rows a SELECT of another connection sees: the committed ones
Visible == table

\* what cur.execute(sql, (limit,)) raises in the present state, NoErr if nothing
SelectError ==
    IF extLock THEN ErrLocked
    ELSE IF ~tableExists THEN ErrNoTable
    ELSE NoErr

\* a read that deletes the rows it was asked for
FetchAttemptConsuming(p, faults) ==
    /\ pc[p] = "fetch_try"
    /\ table' = <<>>
    /\ log' = [log EXCEPT ![p] = Append(@, LogEntry(NoErr, 0))]
    /\ pc' = [pc EXCEPT ![p] = "done"]
    /\ result' = [result EXCEPT ![p] = Returned(req[p], <<>>, <<>>)]
    /\ UNCHANGED <<retries, tableExists, writer, extLock, req, appended, attempt>>

\* one pass through the loop body of fetch_recent, with its except clause and
\* the raise after the loop
FetchAttempt(p, faults) ==
    /\ pc[p] = "fetch_try"
    /\ \E err \in {SelectError} \cup faults :
        IF err = NoErr
        THEN \E ids \in SelectRecent(Visible, req[p].limit) :
                /\ log' = [log EXCEPT ![p] = Append(@, LogEntry(NoErr, 0))]
                /\ pc' = [pc EXCEPT ![p] = "done"]
                /\ result' = [result EXCEPT ![p] = Returned(req[p], ids, Out(Visible, ids))]
                /\ UNCHANGED attempt
        ELSE IF IsContention(err)
        THEN /\ log' = [log EXCEPT ![p] = Append(@, LogEntry(err, FetchBackoff(attempt[p])))]
             /\ IF attempt[p] + 1 \in Attempts(retries)
                THEN /\ attempt' = [attempt EXCEPT ![p] = @ + 1]
                     /\ UNCHANGED <<pc, result>>
                ELSE /\ pc' = [pc EXCEPT ![p] = "done"]
                     /\ result' = [result EXCEPT ![p] = Raised(req[p], ErrFetchTerminal)]
                     /\ UNCHANGED attempt
        ELSE /\ log' = [log EXCEPT ![p] = Append(@, LogEntry(err, 0))]
             /\ pc' = [pc EXCEPT ![p] = "done"]
             /\ result' = [result EXCEPT ![p] = Raised(req[p], err)]
             /\ UNCHANGED attempt
    /\ UNCHANGED <<retries, db, req, appended>>

FetchTry(p) == FetchAttempt(p, Faults)

\* ---- the other users of the database file -----------------------------------
ExtLock ==
    /\ ~extLock /\ writer = {}
    /\ extLock' = TRUE
    /\ UNCHANGED <<retries, tableExists, table, writer, pc, req, attempt, log, appended, result>>

ExtUnlock ==
    /\ extLock
    /\ extLock' = FALSE
    /\ UNCHANGED <<retries, tableExists, table, writer, pc, req, attempt, log, appended, result>>

Next ==
    \/ \E p \in Procs : Initialize(p)
    \/ \E p \in Procs, payload \in ClientPayloads : CallSave(p, payload)
    \/ \E p \in Procs, path \in PostPaths, body \in Bodies : DoPost(p, path, body)
    \/ \E p \in Procs : SaveTry(p)
    \/ \E p \in Procs : SaveCommit(p)
    \/ \E p \in Procs, limit \in Limits : CallFetch(p, limit)
    \/ \E p \in Procs, path \in GetPaths : DoGet(p, path)
    \/ \E p \in Procs : FetchTry(p)
    \/ ExtLock
    \/ ExtUnlock

Spec == Init /\ [][Next]_vars

\* ---- concurrent writers ------------------------------------------------------
\* Every process calls save once with a record of its own, on an initialized
\* and empty table; the storage raises nothing but lock contention; when all
\* saves have ended one process calls fetch_recent(k), k the number of writers.

\* the record of writer p
WriterRecord(p) == Record(<<"n">> \o Digits(p), Ts10, SensPartial)

InitWriters ==
    /\ retries \in 1..MaxRetries
    /\ tableExists = TRUE
    /\ table = <<>>
    /\ writer = {}
    /\ extLock = FALSE
    /\ pc = [p \in Procs |-> "idle"]
    /\ req = [p \in Procs |-> NoReq]
    /\ attempt = [p \in Procs |-> 0]
    /\ log = [p \in Procs |-> <<>>]
    /\ appended = [p \in Procs |-> 0]
    /\ result = [p \in Procs |-> NoResult]

WriterCallSave(p) ==
    /\ pc[p] = "idle"
    /\ SaveEnter(p, [kind |-> "save", path |-> "", payload |-> WriterRecord(p), limit |-> 0])
    /\ UNCHANGED <<retries, db>>

WriterSaveTry(p) == SaveExecute(p, {})

WriterSaveCommit(p) == SaveFinish(p, {})

WriterCallFetch(p) ==
    /\ \A q \in Procs : pc[q] = "done" /\ req[q].kind = "save"
    /\ FetchEnter(p, [kind |-> "fetch", path |-> "", payload |-> JNull, limit |-> Cardinality(Procs)])
    /\ UNCHANGED <<retries, db>>

WriterFetchTry(p) == FetchAttempt(p, {})

NextWriters ==
    \/ \E p \in Procs : WriterCallSave(p)
    \/ \E p \in Procs : WriterSaveTry(p)
    \/ \E p \in Procs : WriterSaveCommit(p)
    \/ \E p \in Procs : WriterCallFetch(p)
    \/ \E p \in Procs : WriterFetchTry(p)
    \/ ExtLock
    \/ ExtUnlock

\* every thread is scheduled again and again, and a lock that is held is
\* released in the end
SpecWriters ==
    /\ InitWriters
    /\ [][NextWriters]_vars
    /\ \A p \in Procs :
        /\ WF_vars(WriterCallSave(p))
        /\ WF_vars(WriterSaveTry(p))
        /\ WF_vars(WriterSaveCommit(p))
        /\ WF_vars(WriterFetchTry(p))
    /\ WF_vars(ExtUnlock)

\* ---- properties -----------------------------------------------------------
\* p has ended a call in which save was called
SaveEnded(p) ==
    /\ pc[p] = "done"
    /\ \/ req[p].kind = "save"
       \/ req[p].kind = "POST" /\ req[p].path = "/data" /\ req[p].payload # NotJson

\* p has ended a call in which fetch_recent was called
FetchEnded(p) ==
    /\ pc[p] = "done"
    /\ \/ req[p].kind = "fetch"
       \/ req[p].kind = "GET" /\ req[p].path = "/data"

\* the payload of p's call has no sensors (absent or null)
NoSensors(p) == HasGet(req[p].payload) /\ IsNone(Get(req[p].payload, "sensors"))

\* p's call reached the retry loop
EnteredLoop(p) ==
    \/ FetchEnded(p)
    \/ SaveEnded(p) /\ HasGet(req[p].payload) /\ HasGet(Get(req[p].payload, "sensors"))

\* every attempt of p's call so far met lock contention
AllLocked(p) == \A i \in 1..Len(log[p]) : log[p][i].err = ErrLocked

\* the error raised after the loop
Terminal(p) == IF req[p].kind \in {"fetch", "GET"} THEN ErrFetchTerminal ELSE ErrSaveTerminal(retries)

\* C1: save with a payload whose sensors is absent or null raises a validation
\* error to the caller, with no insert attempt, no retry and no row stored
C1_MissingSensorsRaises ==
    \A p \in Procs :
        SaveEnded(p) /\ NoSensors(p) =>
            /\ result[p].outcome = "raised"
            /\ result[p].err = ErrValidation
            /\ log[p] = <<>>
            /\ appended[p] = 0

\* C2: a POST to /data whose body has no sensors is answered 500 with the
\* validation diagnostic and stores nothing
C2_PostWithoutSensorsIs500 ==
    \A p \in Procs :
        (pc[p] = "done" /\ req[p].kind = "POST" /\ req[p].path = "/data" /\ NoSensors(p)) =>
            /\ result[p].http = 500
            /\ result[p].err.msg = MsgNoSensor
            /\ appended[p] = 0

\* C3: for every POST the status and the storage effect agree: 202 means
\* exactly one row appended by the request, 404 or 500 means none, and no
\* request appends more than one row
C3_StatusMatchesEffect ==
    \A p \in Procs :
        (pc[p] = "done" /\ req[p].kind = "POST") =>
            /\ result[p].http = 202 => appended[p] = 1
            /\ result[p].http \in {404, 500} => appended[p] = 0
            /\ appended[p] <= 1

\* C4: a save or fetch_recent that meets lock contention on every attempt makes
\* exactly retries attempts, then raises the terminal error; it never makes
\* more attempts than the ceiling, never returns, and stores no row
C4_CeilingThenTerminal ==
    \A p \in Procs :
        /\ Len(log[p]) <= retries
        /\ (pc[p] = "done" /\ EnteredLoop(p) /\ AllLocked(p)) =>
              /\ Len(log[p]) = retries
              /\ result[p].outcome = "raised"
              /\ result[p].err = Terminal(p)
              /\ appended[p] = 0

C4_Witness ==
    /\ retries >= 2
    /\ SaveEnded(Handler) /\ EnteredLoop(Handler) /\ AllLocked(Handler)
    /\ Len(log[Handler]) = retries /\ result[Handler].http = 500
    /\ \E q \in Clients :
        /\ FetchEnded(q) /\ AllLocked(q) /\ Len(log[q]) = retries
        /\ result[q].err = ErrFetchTerminal

\* C5: contention below the ceiling is invisible to the caller: a call whose
\* first j < retries attempts met the lock and whose next attempt was not
\* blocked returns normally (save: exactly one row committed, POST answered
\* 202; fetch_recent: GET answered 200), and a lock error reaches the caller
\* only when every one of the retries attempts met the lock
C5_ContentionAbsorbed ==
    \A p \in Procs :
        /\ (pc[p] = "done" /\ EnteredLoop(p) /\ Len(log[p]) >= 1
              /\ log[p][Len(log[p])].err = NoErr
              /\ \A i \in 1..(Len(log[p]) - 1) : log[p][i].err = ErrLocked) =>
                 /\ result[p].outcome = "returned"
                 /\ SaveEnded(p) => appended[p] = 1
                 /\ req[p].kind = "POST" => result[p].http = 202
                 /\ req[p].kind = "GET" => result[p].http = 200
        /\ (pc[p] = "done" /\ EnteredLoop(p) /\ result[p].outcome = "raised"
              /\ Contains(result[p].err.msg, Needle)) =>
                 /\ Len(log[p]) = retries
                 /\ AllLocked(p)
        /\ (pc[p] \in {"save_try", "save_commit", "fetch_try"}) =>
                 /\ AllLocked(p)
                 /\ Len(log[p]) = attempt[p] - 1
                 /\ attempt[p] <= retries

C5_Witness ==
    /\ SaveEnded(Handler) /\ Len(log[Handler]) = 2
    /\ log[Handler][1].err = ErrLocked /\ log[Handler][2].err = NoErr
    /\ result[Handler].http = 202 /\ appended[Handler] = 1
    /\ \E q \in Clients :
        /\ FetchEnded(q) /\ Len(log[q]) = 2
        /\ log[q][1].err = ErrLocked /\ log[q][2].err = NoErr
        /\ result[q].outcome = "returned"

\* an error that is not lock contention: not an OperationalError, or a message
\* without 'locked'
NotLockError(err) ==
    /\ err # NoErr
    /\ err.cls # "OperationalError" \/ ~Contains(err.msg, Needle)

\* C6: a storage failure that is not lock contention, raised on attempt k of
\* save or fetch_recent, reaches the caller at attempt k: it is the last
\* attempt of the call and no backoff sleep follows it
C6_OtherFailuresPropagate ==
    \A p \in Procs :
        \A k \in 1..Len(log[p]) :
            NotLockError(log[p][k].err) =>
                /\ k = Len(log[p])
                /\ attempt[p] = k
                /\ log[p][k].sleep = 0
                /\ pc[p] = "done"
                /\ result[p].outcome = "raised"
                /\ result[p].err = log[p][k].err

C6_Witness ==
    /\ SaveEnded(Handler) /\ Len(log[Handler]) = 2
    /\ log[Handler][1].err = ErrLocked
    /\ log[Handler][2].err = ErrNotNull
    /\ result[Handler].http = 500
    /\ \E q \in Clients :
        /\ FetchEnded(q) /\ Len(log[q]) = 2
        /\ log[q][2].err = ErrDiskIO
        /\ result[q].err = ErrDiskIO

\* p has ended a call of fetch_recent that returned a list
FetchReturned(p) == FetchEnded(p) /\ result[p].outcome = "returned"

\* timestamp text of the row with rowid id
TsOf(id) == table[id].timestamp[1]

\* C7 as stated: the rows come by timestamp descending, and of two rows with
\* the same timestamp the one with the larger id comes first
C7_TiesByIdDesc ==
    \A p \in Procs :
        FetchReturned(p) =>
            \A i, j \in 1..Len(result[p].ids) :
                i < j =>
                    \/ TextLess(TsOf(result[p].ids[j]), TsOf(result[p].ids[i]))
                    \/ /\ TsOf(result[p].ids[j]) = TsOf(result[p].ids[i])
                       /\ result[p].ids[i] > result[p].ids[j]

\* C7 amended: the rows fetch_recent returns are distinct stored rows in
\* non-increasing order of their timestamp text; nothing is said about the
\* order of rows whose timestamps are equal
C7_TimestampDescending ==
    \A p \in Procs :
        FetchReturned(p) =>
            /\ \A i, j \in 1..Len(result[p].ids) :
                 i < j =>
                    /\ result[p].ids[i] # result[p].ids[j]
                    /\ ~TextLess(TsOf(result[p].ids[i]), TsOf(result[p].ids[j]))
            /\ \A i \in 1..Len(result[p].ids) :
                 /\ result[p].ids[i] \in 1..Len(table)
                 /\ result[p].value[i] = OutEntry(table[result[p].ids[i]])

C7_Witness ==
    \E p \in Procs :
        /\ FetchReturned(p)
        /\ result[p].ids = <<1, 2>>
        /\ TsOf(1) = Ts2 /\ TsOf(2) = Ts10

Max(a, b) == IF a > b THEN a ELSE b

\* C8 as stated: fetch_recent(limit) returns at most max(limit, 0) rows
C8_NegativeLimitClamped ==
    \A p \in Procs :
        FetchReturned(p) => Len(result[p].value) <= Max(req[p].limit, 0)

\* the step in which p's fetch_recent reads the table and returns
FetchReturns(p) ==
    /\ pc[p] = "fetch_try"
    /\ pc'[p] = "done"
    /\ result'[p].outcome = "returned"

\* the step in which p's fetch_recent raises
FetchRaises(p) ==
    /\ pc[p] = "fetch_try"
    /\ pc'[p] = "done"
    /\ result'[p].outcome = "raised"

\* C8 amended: for a limit >= 0 fetch_recent returns the first min(limit, n) of
\* the n stored rows (none for limit 0, none for an empty table); for a
\* negative limit it returns all n rows; whatever it raises is an error of the
\* storage, the same for every limit
C8_LimitCount ==
    [][\A p \in Procs :
        /\ FetchReturns(p) =>
             Len(result'[p].value) =
                IF req[p].limit < 0 THEN Len(table) ELSE Min(req[p].limit, Len(table))
        /\ FetchRaises(p) =>
             result'[p].err \in {ErrNoTable, ErrDiskIO, ErrFetchTerminal}]_vars

C8_Witness ==
    \E p \in Procs :
        /\ FetchReturned(p)
        /\ req[p].limit < 0
        /\ Len(result[p].value) = 2

\* row q is more recent than row r in the sense of the claim: a greater
\* timestamp, or the same timestamp and a later insert
Outranks(q, r) ==
    \/ TextLess(r.timestamp[1], q.timestamp[1])
    \/ r.timestamp[1] = q.timestamp[1] /\ q.id > r.id

\* row q is another row whose timestamp is not less than that of r
NotOlder(q, r) == q.id # r.id /\ ~TextLess(q.timestamp[1], r.timestamp[1])

\* the list holds the entry of row r
Holds(value, r) == \E i \in 1..Len(value) : value[i] = OutEntry(r)

\* C9 as stated: a fetch_recent(n), n >= 1, contains every saved record that
\* fewer than n stored rows outrank
C9_ReadYourWrite ==
    [][\A p \in Procs :
        (FetchReturns(p) /\ req[p].limit >= 1) =>
            \A k \in 1..Len(table) :
                Cardinality({j \in 1..Len(table) : Outranks(table[j], table[k])}) < req[p].limit
                    => Holds(result'[p].value, table[k])]_vars

\* C9 amended: a fetch_recent(n), n >= 1, that returns contains every saved
\* record r for which fewer than n other stored rows have a timestamp greater
\* than or equal to that of r
C9_ReadYourWriteTies ==
    [][\A p \in Procs :
        (FetchReturns(p) /\ req[p].limit >= 1) =>
            \A k \in 1..Len(table) :
                Cardinality({j \in 1..Len(table) : NotOlder(table[j], table[k])}) < req[p].limit
                    => Holds(result'[p].value, table[k])]_vars

C9_Witness ==
    \E p \in Procs :
        /\ FetchReturned(p)
        /\ req[p].limit = 1
        /\ Len(table) = 2
        /\ TsOf(1) = Ts10 /\ TsOf(2) = Ts2
        /\ result[p].ids = <<2>>

\* rowids of the stored rows that carry the record of writer p
RowsOf(p) == {k \in 1..Len(table) : table[k].node_id = <<<<"n">> \o Digits(p)>>}

\* C10 as stated: every one of the k saves returns successfully
C10_AllSavesSucceed ==
    \A p \in Procs :
        SaveEnded(p) => result[p].outcome = "returned"

\* what holds whenever a writer's save has ended, and when the fetch has
C10_Outcomes ==
    /\ \A p \in Procs :
        SaveEnded(p) =>
            \/ /\ result[p].outcome = "returned"
               /\ appended[p] = 1
               /\ Cardinality(RowsOf(p)) = 1
            \/ /\ result[p].outcome = "raised"
               /\ result[p].err = ErrSaveTerminal(retries)
               /\ Len(log[p]) = retries /\ AllLocked(p)
               /\ RowsOf(p) = {}
    /\ \A p \in Procs :
        FetchReturned(p) =>
            /\ Len(result[p].value) = Len(table)
            /\ \A i, j \in 1..Len(result[p].value) :
                 i # j => result[p].value[i] # result[p].value[j]
            /\ \A q \in Procs :
                 Cardinality({i \in 1..Len(result[p].value) :
                                result[p].value[i] = OutEntry(NewRow(<<>>, Params(WriterRecord(q), SensPartial)))})
                    = Cardinality(RowsOf(q))

\* C10 amended: every one of the k saves ends, either returning with exactly
\* one row committed or, when all retries attempts met the lock, raising the
\* terminal error with no row; fetch_recent(k) after all have ended returns
\* one row for each save that returned, all distinct
C10_WritersEnd ==
    /\ []C10_Outcomes
    /\ <>(\A p \in Procs : pc[p] = "done")

C10_Witness ==
    \E p \in Procs :
        /\ FetchReturned(p)
        /\ Len(result[p].value) = Cardinality(Procs)
        /\ \E q \in Procs \ {p} :
            /\ SaveEnded(q)
            /\ Len(log[q]) >= 2
            /\ result[q].outcome = "returned"

\* rowids the list ids leaves out, of the rows stored so far
Omitted(ids) == {k \in 1..Len(table) : \A i \in 1..Len(ids) : ids[i] # k}

\* C11 as stated: what fetch_recent returns is a prefix, in recency order
\* (timestamp descending, later insert first among equal timestamps), of the row
\* set committed at its read; each entry carries the columns of one row
C11_RecencyPrefix ==
    [][\A p \in Procs :
        FetchReturns(p) =>
            LET ids == result'[p].ids
                val == result'[p].value
            IN  /\ \A i \in 1..Len(ids) : ids[i] \in 1..Len(table)
                /\ Len(val) = Len(ids)
                /\ \A i \in 1..Len(ids) : val[i] = OutEntry(table[ids[i]])
                /\ \A i, j \in 1..Len(ids) : i < j => Outranks(table[ids[i]], table[ids[j]])
                /\ \A k \in Omitted(ids) :
                     \A i \in 1..Len(ids) : Outranks(table[ids[i]], table[k])]_vars

\* C11 amended: under any interleaving with concurrent saves, what fetch_recent
\* returns is a prefix, in non-increasing timestamp order, of the row set
\* committed at the moment of its read: only committed rows, each once, each
\* entry with the seven columns of one single row, no omitted row newer than a
\* returned one, and rows are omitted only when the limit is reached
C11_SnapshotPrefix ==
    [][\A p \in Procs :
        FetchReturns(p) =>
            LET ids == result'[p].ids
                val == result'[p].value
            IN  /\ \A i \in 1..Len(ids) : ids[i] \in 1..Len(table)
                /\ \A i, j \in 1..Len(ids) : i # j => ids[i] # ids[j]
                /\ Len(val) = Len(ids)
                /\ \A i \in 1..Len(ids) : val[i] = OutEntry(table[ids[i]])
                /\ \A i, j \in 1..Len(ids) :
                     i < j => ~TextLess(TsOf(ids[i]), TsOf(ids[j]))
                /\ \A k \in Omitted(ids) :
                     /\ Len(ids) = req[p].limit
                     /\ \A i \in 1..Len(ids) : ~TextLess(TsOf(ids[i]), TsOf(k))]_vars

C11_Witness ==
    \E p, q \in Procs :
        /\ FetchReturned(p)
        /\ pc[q] = "save_commit"
        /\ Len(table) >= 1
        /\ Len(result[p].ids) = Len(table)

\* C12: initialize is idempotent: whenever it is called, and however often,
\* after any saves, the table exists afterwards (if the call returned) and its
\* rows, content and order, are those from before the call
C12_InitializeIdempotent ==
    [][\A p \in Procs :
        Initialize(p) =>
            /\ table' = table
            /\ tableExists => tableExists'
            /\ result'[p].outcome = "returned" => tableExists'
            /\ UNCHANGED <<writer, extLock, retries>>]_vars

C12_Witness ==
    \E p \in Procs :
        /\ pc[p] = "done"
        /\ req[p].kind = "initialize"
        /\ result[p].outcome = "returned"
        /\ Len(table) >= 2

\* the step in which p's save commits its row
SaveCommits(p) == pc[p] = "save_commit" /\ appended'[p] = appended[p] + 1

\* the returned text c is the submitted JSON string x
SameText(x, c) == x.t = "str" => c = <<x.v>>

\* the returned number c is the submitted JSON number x, null for a field that
\* is absent or null
SameNumber(x, c) ==
    /\ x.t = "num" => c = <<x.v>>
    /\ x.t = "null" => c = <<>>

\* the returned boolean b is the submitted JSON boolean x, false for an
\* absent field
SameBool(x, b) ==
    /\ x.t = "bool" => b = x.v
    /\ x.t = "null" => b = FALSE

\* entry gives back the record payload
RoundTrip(payload, entry) ==
    LET sensors == Get(payload, "sensors") IN
    /\ SameText(Get(payload, "node_id"), entry.node_id)
    /\ SameText(Get(payload, "timestamp"), entry.timestamp)
    /\ \A k \in {"temperature_celsius", "humidity_percent", "luminosity_lux"} :
          SameNumber(Get(sensors, k), entry.sensors[k])
    /\ \A k \in {"presence_detected", "power_on"} :
          SameBool(Get(sensors, k), entry.sensors[k])

\* C13: the entry fetch_recent returns for a record save accepted gives the
\* record back: node_id, timestamp and every numeric sensor field as submitted
\* (null when absent), both booleans as submitted (false when absent); and
\* every entry fetch_recent returns is the entry of a stored row
C13_RoundTrip ==
    [][\A p \in Procs :
        /\ SaveCommits(p) =>
             /\ table' = Append(table, table'[Len(table')])
             /\ RoundTrip(req[p].payload, OutEntry(table'[Len(table')]))
        /\ FetchReturns(p) =>
             \A i \in 1..Len(result'[p].value) :
                \E k \in 1..Len(table) : result'[p].value[i] = OutEntry(table[k])]_vars

C13_Witness ==
    \E p, q \in Procs :
        /\ SaveEnded(p) /\ appended[p] = 1
        /\ Get(req[p].payload, "sensors") = SensFull
        /\ FetchReturned(q)
        /\ \E i \in 1..Len(result[q].value) :
              LET e == result[q].value[i] IN
              /\ e.node_id = <<NodeN1>> /\ e.timestamp = <<Ts10>>
              /\ e.sensors.temperature_celsius = <<255>>
              /\ e.sensors.luminosity_lux = <<>>
              /\ e.sensors.presence_detected = FALSE
              /\ e.sensors.power_on = TRUE
        /\ \E j \in 1..Len(result[q].value) :
              LET e == result[q].value[j] IN
              /\ e.sensors.temperature_celsius = <<>>
              /\ e.sensors.presence_detected = TRUE
              /\ e.sensors.power_on = FALSE

\* C14: a POST to a path other than /data is answered 404 whatever its body:
\* the body is not parsed (no JSON error for a body that is not JSON), save is
\* not called (no attempt is made) and the storage is as before
C14_OtherPathIs404 ==
    [][\A path \in PostPaths \ {"/data"} : \A body \in Bodies :
        DoPost(Handler, path, body) =>
            /\ pc'[Handler] = "done"
            /\ result'[Handler].http = 404
            /\ result'[Handler].err = NoErr
            /\ attempt'[Handler] = 0
            /\ log'[Handler] = <<>>
            /\ appended'[Handler] = 0
            /\ UNCHANGED db]_vars

C14_Witness ==
    /\ pc[Handler] = "done"
    /\ req[Handler].kind = "POST"
    /\ req[Handler].path = "/other"
    /\ req[Handler].payload \in ValidPayloads
    /\ result[Handler].http = 404
    /\ tableExists /\ ~extLock /\ writer = {}

\* C15: no step of a GET request, and no step of fetch_recent, changes the
\* stored rows or anything else of the storage: not the start of the request,
\* not a read that returns, not a contended read that is retried, not a read
\* that raises
C15_GetLeavesStorage ==
    [][/\ \A path \in GetPaths : DoGet(Handler, path) => UNCHANGED db
       /\ \A p \in Procs : FetchTry(p) => UNCHANGED db
       /\ \A p \in Clients : \A limit \in Limits : CallFetch(p, limit) => UNCHANGED db]_vars

C15_Witness ==
    /\ FetchEnded(Handler)
    /\ req[Handler].kind = "GET"
    /\ result[Handler].http = 500
    /\ Len(log[Handler]) = 2
    /\ Len(table) >= 1

\* the request the handler served last ended in a storage failure: the
\* terminal error after the ceiling, or a storage error that is not contention
HandlerFailed ==
    /\ pc[Handler] = "done"
    /\ req[Handler].kind \in {"POST", "GET"}
    /\ result[Handler].outcome = "raised"
    /\ result[Handler].err \in {Terminal(Handler), ErrDiskIO, ErrNoTable}

\* the storage is free: the table is there and nobody holds a lock
StoreFree == tableExists /\ ~extLock /\ writer = {}

\* C16: a request ending in a storage failure is answered 500 and leaves the
\* service running: the handler holds no lock, every GET and (below the row
\* bound) every POST can be made next, a valid POST /data made next enters
\* save's loop afresh; and a valid POST /data made with the storage free
\* meets no contention, and unless the storage faults anew it is answered
\* 202 with its row stored
C16_FailureIs500ServiceGoesOn ==
    [][/\ HandlerFailed =>
            /\ result[Handler].http = 500
            /\ Handler \notin writer
            /\ \A path \in GetPaths : ENABLED DoGet(Handler, path)
            /\ \A path \in PostPaths : \A body \in Bodies :
                  Len(table) + Cardinality(Saving) < MaxRows => ENABLED DoPost(Handler, path, body)
            /\ \A body \in ValidPayloads :
                  (DoPost(Handler, "/data", body) /\ retries >= 1) =>
                      /\ pc'[Handler] = "save_try"
                      /\ attempt'[Handler] = 1
                      /\ log'[Handler] = <<>>
       /\ (/\ pc[Handler] = "save_try"
           /\ req[Handler].payload \in ValidPayloads
           /\ StoreFree
           /\ SaveTry(Handler)) =>
               \/ pc'[Handler] = "save_commit"
               \/ pc'[Handler] = "done" /\ result'[Handler].err \in Faults
       /\ (/\ pc[Handler] = "save_commit"
           /\ SaveCommit(Handler)
           /\ log'[Handler] = Append(log[Handler], LogEntry(NoErr, 0))) =>
               /\ result'[Handler].http = 202
               /\ table' = Append(table, PendingRow(Handler))
               /\ writer' = {}]_vars

C16_Witness ==
    /\ HandlerFailed
    /\ req[Handler].kind = "POST"
    /\ result[Handler].err = ErrSaveTerminal(retries)
    /\ retries >= 1
    /\ StoreFree
    /\ Len(table) + Cardinality(Saving) < MaxRows

\* C17: the stored rows are append-only: no step of initialize, save,
\* fetch_recent, POST or GET modifies or removes a committed row, a step adds
\* at most one row, at the end, and the ids are unique and strictly increasing
\* in commit order
C17_AppendOnly ==
    [][/\ Len(table') >= Len(table)
       /\ Len(table') <= Len(table) + 1
       /\ \A k \in 1..Len(table) : table'[k] = table[k]
       /\ \A j, k \in 1..Len(table') : j < k => table'[j].id < table'[k].id]_vars

C17_Witness ==
    /\ Len(table) = 2
    /\ table[1].id < table[2].id
    /\ \E p, q \in Procs :
          /\ FetchReturned(p) /\ Len(result[p].value) = 2
          /\ pc[q] = "done" /\ req[q].kind = "initialize" /\ result[q].outcome = "returned"

\* base delay of the operation p is in, in ms
BaseDelay(p) == IF req[p].kind \in {"fetch", "GET"} THEN 20 ELSE 50

\* sum of the waits of the attempts logged in l, in ms
RECURSIVE TotalSleep(_)
TotalSleep(l) == IF l = <<>> THEN 0 ELSE l[1].sleep + TotalSleep(Tail(l))

\* the largest backoff of an operation with the given base delay
LargestBackoff(base) == IF retries = 0 THEN 0 ELSE base * (2 ^ (retries - 1))

\* attempt i of p's operation waited as the schedule says
OnSchedule(p, i) ==
    IsContention(log[p][i].err) => log[p][i].sleep = BaseDelay(p) * (2 ^ (i - 1))

\* the waits of p's operation stay within ceiling times largest backoff
WithinBound(p) == TotalSleep(log[p]) <= retries * LargestBackoff(BaseDelay(p))

\* C18 as stated: a contended attempt a waits base * 2^(a-1), a wait is
\* always followed by a retry, and the waits total at most the ceiling times
\* the largest backoff
C18_WaitsOnlyBeforeRetry ==
    \A p \in Procs :
        /\ WithinBound(p)
        /\ \A i \in 1..Len(log[p]) :
              /\ OnSchedule(p, i)
              /\ log[p][i].sleep > 0 => (i < Len(log[p]) \/ pc[p] # "done")

\* C18 amended: a contended attempt a waits base * 2^(a-1) (base 50 ms for
\* save, 20 ms for fetch_recent), whether or not a retry follows; an attempt
\* that succeeds or fails otherwise does not wait; the waits of an operation
\* total at most the ceiling times the largest backoff
C18_BackoffSchedule ==
    \A p \in Procs :
        /\ WithinBound(p)
        /\ \A i \in 1..Len(log[p]) :
              /\ OnSchedule(p, i)
              /\ ~IsContention(log[p][i].err) => log[p][i].sleep = 0

C18_Witness ==
    \E p, q \in Procs :
        /\ SaveEnded(p) /\ FetchEnded(q)
        /\ Len(log[p]) = 2 /\ log[p][1].sleep = 50 /\ log[p][2].sleep = 100
        /\ Len(log[q]) = 2 /\ log[q][1].sleep = 20 /\ log[q][2].sleep = 40

\* p's operation reached the loop and ended with the terminal error
EndedTerminal(p) ==
    /\ EnteredLoop(p)
    /\ result[p].outcome = "raised"
    /\ result[p].err = Terminal(p)

\* C19: an operation contended on all retries attempts has slept retries
\* times when it raises the terminal error, the last time after the final
\* attempt, 50 * (2^retries - 1) ms in all for save and 20 * (2^retries - 1) ms
\* for fetch_recent; with retries = 0 it raises at once without an attempt
C19_SleepsBeforeTerminal ==
    \A p \in Procs :
        /\ EndedTerminal(p) =>
              /\ Len(log[p]) = retries
              /\ attempt[p] = retries
              /\ \A i \in 1..retries : log[p][i].err = ErrLocked /\ log[p][i].sleep > 0
              /\ TotalSleep(log[p]) = BaseDelay(p) * (2 ^ retries - 1)
        /\ (EnteredLoop(p) /\ Len(log[p]) = retries /\ AllLocked(p)) => EndedTerminal(p)

C19_Witness ==
    \E p, q \in Procs :
        /\ EndedTerminal(p) /\ EndedTerminal(q)
        /\ retries = 2
        /\ req[p].kind = "POST" /\ TotalSleep(log[p]) = 150
        /\ req[q].kind = "fetch" /\ TotalSleep(log[q]) = 60

\* the JSON value x is an object that lacks the key k
Lacks(x, k) == HasGet(x) /\ k \notin DOMAIN x.v

\* the body of a POST is malformed in the sense of C20: not a JSON object, or
\* an object whose sensors is there and not an object, or an object with a
\* sensors object and without node_id or timestamp
Malformed(body) ==
    \/ ~HasGet(body)
    \/ HasGet(body) /\ ~Lacks(body, "sensors") /\ ~HasGet(Get(body, "sensors"))
    \/ /\ HasGet(body) /\ HasGet(Get(body, "sensors"))
       /\ Lacks(body, "node_id") \/ Lacks(body, "timestamp")

\* the handler has answered a POST /data with a malformed body
MalformedPostEnded == SaveEnded(Handler) /\ req[Handler].kind = "POST" /\ Malformed(req[Handler].payload)

\* no stored row has a null node_id or timestamp
NoNullKeys == \A k \in 1..Len(table) : table[k].node_id # <<>> /\ table[k].timestamp # <<>>

\* C20: a POST /data with a malformed body is answered 500 after at most one
\* insert attempt, without a backoff wait and without a row stored; and no
\* stored row has a null node_id or timestamp
C20_MalformedIs500AtOnce ==
    /\ MalformedPostEnded =>
          /\ result[Handler].http = 500
          /\ Len(log[Handler]) <= 1
          /\ TotalSleep(log[Handler]) = 0
          /\ appended[Handler] = 0
    /\ NoNullKeys

\* the part of C20 that the code keeps: a malformed POST stores no row, and no
\* stored row has a null node_id or timestamp
C20_MalformedStoresNothing ==
    /\ MalformedPostEnded => appended[Handler] = 0
    /\ NoNullKeys

\* a malformed POST that was retried after contention and then refused
C20_RetriedThenRefused ==
    /\ MalformedPostEnded
    /\ result[Handler].err = ErrNotNull
    /\ Len(log[Handler]) = 2
    /\ log[Handler][1].sleep = 50

\* a POST with a null sensors answered 202
C20_NullSensorsAccepted ==
    /\ MalformedPostEnded
    /\ req[Handler].payload = PayNullSensors
    /\ result[Handler].http = 202

====
